---- MODULE Spec2Model ----
(***************************************************************************)
(* customRedisRateLimiter of src/rateLimiter.js: a sliding-window log kept *)
(* in a shared key-value store, read and written back by every request.    *)
(*                                                                         *)
(* Time is counted in clock ticks (moment().unix() is the clock).  The     *)
(* three configuration constants of the source are scaled down so that a   *)
(* window, a compaction interval and a full quota all fit in a small run;  *)
(* the handler's arithmetic on them is kept as written.                    *)
(***************************************************************************)
EXTENDS Integers, Sequences, FiniteSets, TLC

\* window length in ticks (WINDOW_SIZE_IN_HOURS hours in the source)
WINDOW_SIZE_IN_HOURS == 4
\* quota per window
MAX_WINDOW_REQUEST_COUNT == 3
\* compaction interval in ticks (WINDOW_LOG_INTERVAL_IN_HOURS hours in the source)
WINDOW_LOG_INTERVAL_IN_HOURS == 2
\* the clock runs from Epoch to Epoch + MaxTicks
MaxTicks == 4
\* number of evaluations started in one behaviour
MaxEvals == 6
\* number of evaluations started in one behaviour when evaluations interleave
MaxRaceEvals == 4

\* first clock value: late enough that no timestamp computed below is negative
Epoch == WINDOW_SIZE_IN_HOURS + WINDOW_LOG_INTERVAL_IN_HOURS
Times == Epoch .. (Epoch + MaxTicks)

\* client keys (req.ip) and the requests that can be in flight together
Keys == {"a", "b"}
\* req.ip when the request carries no address text
EmptyKey == ""
AllKeys == Keys \cup {EmptyKey}
Procs == {1, 2}
\* the client key whose requests arrive together
Contended == "a"
\* the request slot used when evaluations run one at a time
Single == CHOOSE p \in Procs : \A q \in Procs : p <= q

(***************************************************************************)
(* JavaScript values met by the handler when a stored entry is not a pair  *)
(* of integers: a missing field reads as undefined, arithmetic on it gives *)
(* NaN, and JSON.stringify writes NaN as null.                             *)
(***************************************************************************)
Undefined == -1
NaN == -2
Null == -3

IsNumber(x) == x >= 0

\* a > b of JavaScript, b a number: undefined and NaN compare false, null is 0
JsGt(a, b) == IF a = Undefined \/ a = NaN THEN FALSE
              ELSE IF a = Null THEN 0 > b
              ELSE a > b

\* acc + x of JavaScript: undefined and NaN give NaN, null is 0
JsAdd(acc, x) == IF acc = NaN \/ x = Undefined \/ x = NaN THEN NaN
                 ELSE IF x = Null THEN acc
                 ELSE acc + x

\* x++ of JavaScript
JsInc(x) == IF x = Undefined \/ x = NaN THEN NaN
            ELSE IF x = Null THEN 1
            ELSE x + 1

(***************************************************************************)
(* Stored values.  The store holds strings; a string is modelled by what   *)
(* JSON.parse makes of it: no value (redis nil), text that does not parse, *)
(* JSON that is not an array, or an array of entries.                      *)
(***************************************************************************)
Absent == [kind |-> "absent", data |-> <<>>]
Garbage == [kind |-> "garbage", data |-> <<>>]
Scalar == [kind |-> "scalar", data |-> <<>>]
Array(d) == [kind |-> "array", data |-> d]

Entry(t, c) == [requestTimeStamp |-> t, requestCount |-> c]

\* JSON.stringify of one number-valued field: NaN is written as null, a
\* missing field stays missing
StringifyField(x) == IF x = NaN THEN Null ELSE x

\* JSON.stringify(data)
JSONstringify(data) ==
    Array([i \in 1 .. Len(data) |->
              Entry(StringifyField(data[i].requestTimeStamp),
                    StringifyField(data[i].requestCount))])

\* JSON.parse(record), for a record that parses to an array
JSONparse(rec) == rec.data

(***************************************************************************)
(* The handler's computations, lines 47-82.                                *)
(***************************************************************************)
\* the log of a first request
newRecordMut(currentRequestTime) == <<Entry(currentRequestTime, 0)>>
newRecord(currentRequestTime) == <<Entry(currentRequestTime, 1)>>

\* moment().subtract(WINDOW_SIZE_IN_HOURS, 'hours').unix()
windowStartTimestampMut(now) == now - WINDOW_SIZE_IN_HOURS - 1
windowStartTimestamp(now) == now - WINDOW_SIZE_IN_HOURS

\* data.filter(entry => entry.requestTimeStamp > windowStartTimestamp)
InWindowMut(entry, windowStart) == JsGt(entry.requestTimeStamp, windowStart - 1)
InWindow(entry, windowStart) == JsGt(entry.requestTimeStamp, windowStart)

requestsWithinWindow(data, windowStart) ==
    SelectSeq(data, LAMBDA entry : InWindow(entry, windowStart))

\* requestsWithinWindow.reduce((accumulator, entry) => accumulator + entry.requestCount, 0)
RECURSIVE Reduce(_, _)
Reduce(entries, accumulator) ==
    IF entries = <<>> THEN accumulator
    ELSE Reduce(Tail(entries), JsAdd(accumulator, Head(entries).requestCount))

totalWindowRequestsCountMut(data, windowStart) ==
    Len(requestsWithinWindow(data, windowStart))
totalWindowRequestsCount(data, windowStart) ==
    Reduce(requestsWithinWindow(data, windowStart), 0)

\* totalWindowRequestsCount >= MAX_WINDOW_REQUEST_COUNT (false for NaN)
ExceededMut(total) == IsNumber(total) /\ total > MAX_WINDOW_REQUEST_COUNT
Exceeded(total) == IsNumber(total) /\ total >= MAX_WINDOW_REQUEST_COUNT

\* currentRequestTime.subtract(WINDOW_LOG_INTERVAL_IN_HOURS, 'hours'): moment
\* objects are mutable, so this moves currentRequestTime itself back
SubtractInterval(currentRequestTime) == currentRequestTime - WINDOW_LOG_INTERVAL_IN_HOURS

\* lines 68-79: fold the request into the last entry or push a new entry
UpdatedLogPrune(data, currentRequestTime) ==
    LET n == Len(data)
        moved == SubtractInterval(currentRequestTime)
        kept == requestsWithinWindow(data, windowStartTimestamp(currentRequestTime))
    IN  IF JsGt(data[n].requestTimeStamp, moved)
        THEN [kept EXCEPT ![Len(kept)].requestCount = JsInc(@)]
        ELSE Append(kept, Entry(moved, 1))
UpdatedLogMut(data, currentRequestTime) ==
    LET n == Len(data)
        moved == SubtractInterval(currentRequestTime)
    IN  IF JsGt(data[n].requestTimeStamp, moved)
        THEN [data EXCEPT ![n].requestCount = JsInc(@)]
        ELSE Append(data, Entry(SubtractInterval(moved), 1))
UpdatedLog(data, currentRequestTime) ==
    LET n == Len(data)
        lastRequestLog == data[n]
        \* currentRequestTime after line 69
        moved == SubtractInterval(currentRequestTime)
        potentialCurrentWindowIntervalStartTimeStamp == moved
    IN  IF JsGt(lastRequestLog.requestTimeStamp, potentialCurrentWindowIntervalStartTimeStamp)
        THEN [data EXCEPT ![n].requestCount = JsInc(@)]
        ELSE Append(data, Entry(moved, 1))

\* what an evaluation does once the get has answered
ProceedMut(value) == [next |-> "done", result |-> "allow", value |-> value]
Proceed(value) == [next |-> "set", result |-> "allow", value |-> value]
Reject == [next |-> "done", result |-> "deny", value |-> Absent]
Throw == [next |-> "done", result |-> "error", value |-> Absent]

EvaluateMut(record, currentRequestTime, now) ==
    IF record = Absent
    THEN Proceed(JSONstringify(newRecord(currentRequestTime)))
    ELSE IF record.kind # "array" \/ Len(record.data) = 0
    THEN Throw
    ELSE IF Exceeded(totalWindowRequestsCount(JSONparse(record), windowStartTimestamp(now)))
    THEN [next |-> "set", result |-> "deny",
          value |-> JSONstringify(UpdatedLog(JSONparse(record), currentRequestTime))]
    ELSE Proceed(JSONstringify(UpdatedLog(JSONparse(record), currentRequestTime)))

\* lines 47-82, run when the get answers with `record` at clock value `now`,
\* for a request that began at currentRequestTime
Evaluate(record, currentRequestTime, now) ==
    IF record = Absent
    THEN Proceed(JSONstringify(newRecord(currentRequestTime)))
    ELSE IF record.kind = "garbage"
    THEN Throw      \* JSON.parse throws
    ELSE IF record.kind = "scalar"
    THEN Throw      \* data.filter is not a function
    ELSE LET data == JSONparse(record)
             total == totalWindowRequestsCount(data, windowStartTimestamp(now))
         IN  IF Exceeded(total)
             THEN Reject
             ELSE IF Len(data) = 0
             THEN Throw      \* lastRequestLog is undefined
             ELSE Proceed(JSONstringify(UpdatedLog(data, currentRequestTime)))

\* catch (error) { return next(error); }
CatchOutcomeMut == "allow"
CatchOutcome == "error"

(***************************************************************************)
(* State                                                                   *)
(***************************************************************************)
VARIABLES
    clock,               \* moment().unix()
    store,               \* the key-value store: key -> stored value
    pc,                  \* per request: "idle", "get" (awaiting getAsync), "set" (awaiting setAsync)
    ip,                  \* req.ip of the request
    currentRequestTime,  \* line 42
    record,              \* what getAsync answered
    decidedAt,           \* the clock when lines 47-82 ran
    pending,             \* the value handed to setAsync
    verdict,             \* the outcome that follows the set's acknowledgement
    result,              \* "none", "allow" (next()), "deny" (429), "error" (next(error))
    gets,                \* store gets answered or failed in this evaluation
    sets,                \* store sets applied in this evaluation
    failed,              \* "none", "get", "set": the store operation that failed
    allowedAt,           \* key -> time -> number of allowed requests begun at that time
    evals,               \* evaluations started
    denied,              \* key -> the denials since the key's last allowed request
    blocked,             \* per request: denied[req.ip] as the request found it
    limiter,             \* rateLimiter: key -> points consumed and since when
    tp                   \* the request inside rateLimiterUsingThirdParty

vars == <<clock, store, pc, ip, currentRequestTime, record, decidedAt, pending,
          verdict, result, gets, sets, failed, allowedAt, evals, denied, blocked,
          limiter, tp>>

\* the state of rateLimiterUsingThirdParty and of its library
thirdPartyVars == <<limiter, tp>>

\* no denial since the last allowed request
NotDenied == [since |-> 0, probes |-> 0]

\* no request inside rateLimiterUsingThirdParty
NoRequest == [pc |-> "idle", ip |-> Contended, cause |-> "none", response |-> "none"]

Init ==
    /\ clock = Epoch
    /\ store = [k \in AllKeys |-> Absent]
    /\ pc = [p \in Procs |-> "idle"]
    /\ ip = [p \in Procs |-> "a"]
    /\ currentRequestTime = [p \in Procs |-> Epoch]
    /\ record = [p \in Procs |-> Absent]
    /\ decidedAt = [p \in Procs |-> Epoch]
    /\ pending = [p \in Procs |-> Absent]
    /\ verdict = [p \in Procs |-> "none"]
    /\ result = [p \in Procs |-> "none"]
    /\ gets = [p \in Procs |-> 0]
    /\ sets = [p \in Procs |-> 0]
    /\ failed = [p \in Procs |-> "none"]
    /\ allowedAt = [k \in AllKeys |-> [t \in Times |-> 0]]
    /\ evals = 0
    /\ denied = [k \in AllKeys |-> NotDenied]
    /\ blocked = [p \in Procs |-> NotDenied]
    /\ limiter = [k \in Keys |-> [consumed |-> 0, since |-> Epoch]]
    /\ tp = NoRequest

\* time passes
Tick ==
    /\ clock < Epoch + MaxTicks
    /\ clock' = clock + 1
    /\ UNCHANGED <<store, pc, ip, currentRequestTime, record, decidedAt, pending,
                   verdict, result, gets, sets, failed, allowedAt, evals, denied,
                   blocked, limiter, tp>>

\* lines 42-44: a request arrives, reads the clock and sends the get
Start(p, k) ==
    /\ pc[p] = "idle"
    /\ evals < MaxEvals
    /\ evals' = evals + 1
    /\ pc' = [pc EXCEPT ![p] = "get"]
    /\ ip' = [ip EXCEPT ![p] = k]
    /\ currentRequestTime' = [currentRequestTime EXCEPT ![p] = clock]
    /\ record' = [record EXCEPT ![p] = Absent]
    /\ decidedAt' = [decidedAt EXCEPT ![p] = clock]
    /\ pending' = [pending EXCEPT ![p] = Absent]
    /\ verdict' = [verdict EXCEPT ![p] = "none"]
    /\ result' = [result EXCEPT ![p] = "none"]
    /\ gets' = [gets EXCEPT ![p] = 0]
    /\ sets' = [sets EXCEPT ![p] = 0]
    /\ failed' = [failed EXCEPT ![p] = "none"]
    /\ blocked' = [blocked EXCEPT ![p] = NotDenied]
    /\ UNCHANGED <<clock, store, allowedAt, denied, thirdPartyVars>>

\* a request arrives while no other evaluation is in progress
StartAlone(p, k) ==
    /\ \A q \in Procs : pc[q] = "idle"
    /\ Start(p, k)

\* the outcome reaches the pipeline
Deliver(p, outcome) ==
    /\ pc' = [pc EXCEPT ![p] = "idle"]
    /\ result' = [result EXCEPT ![p] = outcome]
    /\ allowedAt' = IF outcome = "allow"
                    THEN [allowedAt EXCEPT ![ip[p]][currentRequestTime[p]] = @ + 1]
                    ELSE allowedAt
    /\ denied' = IF outcome = "allow"
                 THEN [denied EXCEPT ![ip[p]] = NotDenied]
                 ELSE IF outcome = "deny"
                 THEN [denied EXCEPT ![ip[p]] =
                          [since |-> IF @.since = 0 THEN currentRequestTime[p] ELSE @.since,
                           probes |-> @.probes + 1]]
                 ELSE denied

\* line 44 answers; lines 47-81 run up to the next await or to a return
GetReturn(p) ==
    /\ pc[p] = "get"
    /\ LET e == Evaluate(store[ip[p]], currentRequestTime[p], clock)
       IN  /\ record' = [record EXCEPT ![p] = store[ip[p]]]
           /\ decidedAt' = [decidedAt EXCEPT ![p] = clock]
           /\ gets' = [gets EXCEPT ![p] = @ + 1]
           /\ pending' = [pending EXCEPT ![p] = e.value]
           /\ verdict' = [verdict EXCEPT ![p] = e.result]
           /\ blocked' = [blocked EXCEPT ![p] = denied[ip[p]]]
           /\ IF e.next = "set"
              THEN /\ pc' = [pc EXCEPT ![p] = "set"]
                   /\ UNCHANGED <<result, allowedAt, denied>>
              ELSE Deliver(p, IF e.result = "error" THEN CatchOutcome ELSE e.result)
    /\ UNCHANGED <<clock, store, ip, currentRequestTime, sets, failed, evals,
                   thirdPartyVars>>

\* getAsync rejects
GetFail(p) ==
    /\ pc[p] = "get"
    /\ gets' = [gets EXCEPT ![p] = @ + 1]
    /\ failed' = [failed EXCEPT ![p] = "get"]
    /\ Deliver(p, CatchOutcome)
    /\ UNCHANGED <<clock, store, ip, currentRequestTime, record, decidedAt, pending,
                   verdict, sets, evals, blocked, thirdPartyVars>>

SetReturnMut(p) ==
    /\ pc[p] = "set"
    /\ store' = [store EXCEPT ![ip[p]] =
                    IF @ = record[p] \/ @.kind # "array" \/ Len(@.data) = 0
                    THEN pending[p]
                    ELSE JSONstringify(UpdatedLog(JSONparse(@), currentRequestTime[p]))]
    /\ sets' = [sets EXCEPT ![p] = @ + 1]
    /\ Deliver(p, verdict[p])
    /\ UNCHANGED <<clock, ip, currentRequestTime, record, decidedAt, pending,
                   verdict, gets, failed, evals, blocked, thirdPartyVars>>

\* lines 52-53 and 81-82: the set is applied and acknowledged
SetReturn(p) ==
    /\ pc[p] = "set"
    /\ store' = [store EXCEPT ![ip[p]] = pending[p]]
    /\ sets' = [sets EXCEPT ![p] = @ + 1]
    /\ Deliver(p, verdict[p])
    /\ UNCHANGED <<clock, ip, currentRequestTime, record, decidedAt, pending,
                   verdict, gets, failed, evals, blocked, thirdPartyVars>>

\* setAsync rejects; the store keeps its value
SetFail(p) ==
    /\ pc[p] = "set"
    /\ failed' = [failed EXCEPT ![p] = "set"]
    /\ Deliver(p, CatchOutcome)
    /\ UNCHANGED <<clock, store, ip, currentRequestTime, record, decidedAt, pending,
                   verdict, gets, sets, evals, blocked, thirdPartyVars>>

\* one evaluation at a time, a store that answers
Next ==
    \/ Tick
    \/ \E k \in Keys : StartAlone(Single, k)
    \/ \E p \in Procs : GetReturn(p)
    \/ \E p \in Procs : SetReturn(p)

Spec == Init /\ [][Next]_vars

\* a request of the contended key arrives, whatever else is in progress
StartTogether(p) ==
    /\ evals < MaxRaceEvals
    /\ Start(p, Contended)

\* evaluations of one client key interleave
NextRace ==
    \/ Tick
    \/ \E p \in Procs : StartTogether(p)
    \/ \E p \in Procs : GetReturn(p)
    \/ \E p \in Procs : SetReturn(p)

SpecRace == Init /\ [][NextRace]_vars

\* one evaluation at a time, a store whose operations can fail
NextFail ==
    \/ Tick
    \/ \E k \in Keys : StartAlone(Single, k)
    \/ \E p \in Procs : GetReturn(p)
    \/ \E p \in Procs : GetFail(p)
    \/ \E p \in Procs : SetReturn(p)
    \/ \E p \in Procs : SetFail(p)

SpecFail == Init /\ [][NextFail]_vars

\* values another writer of the shared store can leave under a client key
\* that are not a log: text that is no JSON, JSON that is no array, an empty
\* array, and entries without requestTimeStamp or without requestCount
NotALog ==
    {Garbage, Scalar, Array(<<>>),
     Array(<<Entry(Undefined, Undefined)>>),
     Array(<<Entry(Epoch, Undefined)>>),
     Array(<<Entry(Undefined, 1)>>)}

ForeignWrite(k, v) ==
    /\ \A q \in Procs : pc[q] = "idle"
    /\ store[k] # v
    /\ store' = [store EXCEPT ![k] = v]
    /\ UNCHANGED <<clock, pc, ip, currentRequestTime, record, decidedAt, pending,
                   verdict, result, gets, sets, failed, allowedAt, evals, denied,
                   blocked, thirdPartyVars>>

\* one evaluation at a time, a store that also holds values that are not logs
NextCorrupt ==
    \/ Tick
    \/ \E k \in Keys : StartAlone(Single, k)
    \/ \E p \in Procs : GetReturn(p)
    \/ \E p \in Procs : SetReturn(p)
    \/ \E v \in NotALog : ForeignWrite(Contended, v)

SpecCorrupt == Init /\ [][NextCorrupt]_vars

\* one evaluation at a time, requests with and without a client key
NextInput ==
    \/ Tick
    \/ \E k \in {EmptyKey, Contended} : StartAlone(Single, k)
    \/ \E p \in Procs : GetReturn(p)
    \/ \E p \in Procs : SetReturn(p)

SpecInput == Init /\ [][NextInput]_vars

(***************************************************************************)
(* rateLimiterUsingThirdParty, lines 30-37, and the library limiter it     *)
(* calls, as configured by opts (lines 18-24): `points` requests per key   *)
(* in `duration`, and a key that goes over is blocked for `blockDuration`. *)
(***************************************************************************)
points == MAX_WINDOW_REQUEST_COUNT
duration == WINDOW_SIZE_IN_HOURS
blockDuration == WINDOW_SIZE_IN_HOURS

\* the key has no points consumed in a running duration
Fresh(k) == limiter[k].consumed = 0 \/ clock >= limiter[k].since + duration

\* catch (error) { return res.status(429)... }: whatever consume rejected with
ThirdPartyCatch(cause) == "429"

\* the variables of customRedisRateLimiter
customVars == <<store, pc, ip, currentRequestTime, record, decidedAt, pending,
                verdict, result, gets, sets, failed, allowedAt, denied, blocked>>

\* lines 30-32: a request arrives and consume is called
ThirdPartyStart(k) ==
    /\ tp.pc = "idle"
    /\ evals < MaxEvals
    /\ evals' = evals + 1
    /\ tp' = [pc |-> "consume", ip |-> k, cause |-> "none", response |-> "none"]
    /\ UNCHANGED <<clock, limiter, customVars>>

\* consume resolves: a point is taken, line 33 calls next()
ConsumeResolve ==
    /\ tp.pc = "consume"
    /\ Fresh(tp.ip) \/ limiter[tp.ip].consumed < points
    /\ limiter' = [limiter EXCEPT ![tp.ip] =
                      IF Fresh(tp.ip)
                      THEN [consumed |-> 1, since |-> clock]
                      ELSE [consumed |-> @.consumed + 1, since |-> @.since]]
    /\ tp' = [tp EXCEPT !.pc = "idle", !.cause = "resolved", !.response = "next"]
    /\ UNCHANGED <<clock, evals, customVars>>

\* consume rejects because the key has used its points; the key is blocked
ConsumeRejectQuota ==
    /\ tp.pc = "consume"
    /\ ~Fresh(tp.ip) /\ limiter[tp.ip].consumed >= points
    /\ limiter' = [limiter EXCEPT ![tp.ip] =
                      IF @.consumed = points
                      THEN [consumed |-> points + 1, since |-> clock + blockDuration - duration]
                      ELSE @]
    /\ tp' = [tp EXCEPT !.pc = "idle", !.cause = "quota",
                        !.response = ThirdPartyCatch("quota")]
    /\ UNCHANGED <<clock, evals, customVars>>

\* consume rejects because the store or the library failed
ConsumeRejectError ==
    /\ tp.pc = "consume"
    /\ tp' = [tp EXCEPT !.pc = "idle", !.cause = "failure",
                        !.response = ThirdPartyCatch("failure")]
    /\ UNCHANGED <<clock, evals, limiter, customVars>>

NextThirdParty ==
    \/ Tick
    \/ \E k \in Keys : ThirdPartyStart(k)
    \/ ConsumeResolve
    \/ ConsumeRejectQuota
    \/ ConsumeRejectError

SpecThirdParty == Init /\ [][NextThirdParty]_vars

(***************************************************************************)
(* What the specification says of a log, written from its words and not    *)
(* from the handler's code.                                                *)
(***************************************************************************)
\* a stored value that is a log: a non-empty array of integer pairs
IsLog(value) ==
    /\ value.kind = "array"
    /\ Len(value.data) > 0
    /\ \A i \in 1 .. Len(value.data) :
          /\ value.data[i].requestTimeStamp >= 0
          /\ value.data[i].requestCount >= 0

\* the sum of requestCount over the buckets with requestTimeStamp > start
RECURSIVE CountSince(_, _)
CountSince(log, start) ==
    IF log = <<>> THEN 0
    ELSE (IF Head(log).requestTimeStamp > start THEN Head(log).requestCount ELSE 0)
         + CountSince(Tail(log), start)

\* the in-window total of a stored log at time now
QuotaUsed(value, now) == CountSince(value.data, now - WINDOW_SIZE_IN_HOURS)

\* the number of allowed requests of key k begun in the interval (T - windowSize, T]
RECURSIVE AllowedFrom(_, _, _)
AllowedFrom(k, t, T) ==
    IF t > T THEN 0
    ELSE (IF t \in Times THEN allowedAt[k][t] ELSE 0) + AllowedFrom(k, t + 1, T)

AllowedWithin(k, T) == AllowedFrom(k, T - WINDOW_SIZE_IN_HOURS + 1, T)

\* an evaluation that has read a log and decided on it
Decided(p) == gets[p] = 1 /\ failed[p] # "get"

(***************************************************************************)
(* C1  P1, single-process bound: with evaluations run one at a time, the   *)
(* number of allowed requests of one client key whose request times lie in *)
(* any interval of length windowSize never exceeds maxRequests.            *)
(* The handler does not keep this bound.                                   *)
(***************************************************************************)
C1_SingleProcessBound ==
    \A k \in Keys, T \in Times : AllowedWithin(k, T) <= MAX_WINDOW_REQUEST_COUNT

(***************************************************************************)
(* C2  Stored-quota invariant: with evaluations run one at a time, at the  *)
(* time of every write and at every later time the in-window total of the  *)
(* stored log is at most maxRequests.                                      *)
(***************************************************************************)
C2_StoredQuota ==
    \A k \in Keys :
        store[k] # Absent => QuotaUsed(store[k], clock) <= MAX_WINDOW_REQUEST_COUNT

\* the stored log of a key is full, holds two buckets, and was just written
C2_Witness ==
    /\ pc[Single] = "idle" /\ result[Single] = "allow" /\ sets[Single] = 1
    /\ Len(store[ip[Single]].data) >= 2
    /\ QuotaUsed(store[ip[Single]], clock) = MAX_WINDOW_REQUEST_COUNT

(***************************************************************************)
(* C3  Decision rule: an evaluation that reads a log is denied if and only *)
(* if the in-window total of that log, at the time the window is taken, is *)
(* at least maxRequests, and is allowed otherwise.                         *)
(***************************************************************************)
C3_DecisionRule ==
    \A p \in Procs :
        (Decided(p) /\ record[p] # Absent) =>
            IF QuotaUsed(record[p], decidedAt[p]) >= MAX_WINDOW_REQUEST_COUNT
            THEN pc[p] = "idle" /\ result[p] = "deny"
            ELSE \/ pc[p] = "set" /\ verdict[p] = "allow"
                 \/ pc[p] = "idle" /\ result[p] = "allow"

\* a request finds exactly maxRequests in the window, left there by the
\* request that found maxRequests - 1, and is denied
C3_Witness ==
    /\ result[Single] = "deny"
    /\ QuotaUsed(record[Single], decidedAt[Single]) = MAX_WINDOW_REQUEST_COUNT
    /\ AllowedWithin(ip[Single], decidedAt[Single]) = MAX_WINDOW_REQUEST_COUNT

(***************************************************************************)
(* C4  P3, no mutation on deny: the step in which an evaluation ends in    *)
(* Deny leaves the stored value of every key as it was, and the evaluation *)
(* has performed no store set.                                             *)
(***************************************************************************)
C4_NoMutationOnDeny ==
    [][\A p \in Procs :
          (pc[p] # "idle" /\ result'[p] = "deny") =>
              (store' = store /\ sets'[p] = 0)]_vars

\* a denied evaluation, with the log it read still stored and a log under
\* the other key
C4_Witness ==
    /\ pc[Single] = "idle" /\ result[Single] = "deny" /\ sets[Single] = 0
    /\ store[ip[Single]] = record[Single]
    /\ \A k \in Keys : store[k] # Absent

(***************************************************************************)
(* C5  P5, cold start: an evaluation that finds no stored value for its    *)
(* key is allowed and stores exactly the one-bucket log                    *)
(* [{requestTimeStamp: now, requestCount: 1}], now the request's time.     *)
(***************************************************************************)
C5_ColdStart ==
    \A p \in Procs :
        (Decided(p) /\ record[p] = Absent) =>
            LET first == [kind |-> "array",
                          data |-> <<[requestTimeStamp |-> currentRequestTime[p],
                                      requestCount |-> 1]>>]
            IN  \/ pc[p] = "set" /\ verdict[p] = "allow" /\ pending[p] = first
                \/ /\ pc[p] = "idle" /\ result[p] = "allow" /\ sets[p] = 1
                   /\ store[ip[p]] = first

\* a first request, answered after the clock has moved on, has been allowed
C5_Witness ==
    /\ pc[Single] = "idle" /\ result[Single] = "allow"
    /\ record[Single] = Absent /\ gets[Single] = 1
    /\ decidedAt[Single] > currentRequestTime[Single]
    /\ Len(store[ip[Single]].data) = 1

(***************************************************************************)
(* C6  Log mutation on Allow: an allowed request at time now on an         *)
(* existing log increments the last bucket when its requestTimeStamp is    *)
(* > now - compactionInterval, and otherwise appends the bucket            *)
(* {requestTimeStamp: now, requestCount: 1}; earlier buckets are unchanged.*)
(* The handler appends a bucket stamped now - compactionInterval.          *)
(***************************************************************************)
ClaimedUpdate(log, now) ==
    LET n == Len(log)
    IN  IF log[n].requestTimeStamp > now - WINDOW_LOG_INTERVAL_IN_HOURS
        THEN [i \in 1 .. n |->
                 IF i = n
                 THEN [requestTimeStamp |-> log[n].requestTimeStamp,
                       requestCount |-> log[n].requestCount + 1]
                 ELSE log[i]]
        ELSE log \o <<[requestTimeStamp |-> now, requestCount |-> 1]>>

C6_LogMutation ==
    \A p \in Procs :
        (pc[p] = "set" /\ record[p] # Absent) =>
            pending[p].data = ClaimedUpdate(record[p].data, currentRequestTime[p])

(***************************************************************************)
(* C7  P2, compaction boundedness: the stored log of a client never holds  *)
(* more than ceil(windowSize / compactionInterval) + 1 buckets.            *)
(* The handler never removes a bucket and opens one per request once the   *)
(* first interval has passed.                                              *)
(***************************************************************************)
MaxBuckets ==
    ((WINDOW_SIZE_IN_HOURS + WINDOW_LOG_INTERVAL_IN_HOURS - 1)
        \div WINDOW_LOG_INTERVAL_IN_HOURS) + 1

C7_CompactionBounded ==
    \A k \in Keys : Len(store[k].data) <= MaxBuckets

(***************************************************************************)
(* C8  P6, race exposure: two evaluations of one client key that both read *)
(* the log before either writes are each allowed on the log they read, and *)
(* together they take the number of allowed requests in the window above   *)
(* maxRequests.  Every allowed evaluation, interleaved or not, found fewer *)
(* than maxRequests in the window of the log it read.                      *)
(***************************************************************************)
C8_AllowedOnWhatWasRead ==
    \A p \in Procs :
        (verdict[p] = "allow" /\ record[p] # Absent) =>
            QuotaUsed(record[p], decidedAt[p]) < MAX_WINDOW_REQUEST_COUNT

\* two requests of the same instant read the same log, both are allowed,
\* and the key has more than maxRequests allowed requests at that instant
C8_Witness ==
    \E p, q \in Procs :
        /\ p # q
        /\ pc[p] = "idle" /\ pc[q] = "idle"
        /\ result[p] = "allow" /\ result[q] = "allow"
        /\ record[p] # Absent /\ record[p] = record[q]
        /\ currentRequestTime[p] = clock /\ currentRequestTime[q] = clock
        /\ allowedAt[Contended][clock] > MAX_WINDOW_REQUEST_COUNT
        /\ QuotaUsed(store[Contended], clock) <= MAX_WINDOW_REQUEST_COUNT

(***************************************************************************)
(* C9  Store failure is never a quota decision: an evaluation whose get or *)
(* set fails ends in the error outcome, neither Allow nor Deny; a Deny     *)
(* comes only from an in-window total >= maxRequests read from the store.  *)
(***************************************************************************)
C9_StoreFailureIsError ==
    \A p \in Procs :
        /\ failed[p] # "none" => (pc[p] = "idle" /\ result[p] = "error")
        /\ result[p] = "deny" =>
              /\ failed[p] = "none"
              /\ record[p] # Absent
              /\ QuotaUsed(record[p], decidedAt[p]) >= MAX_WINDOW_REQUEST_COUNT

\* the set of an evaluation that had been allowed on an existing log failed
C9_Witness ==
    /\ failed[Single] = "set" /\ result[Single] = "error"
    /\ record[Single] # Absent /\ verdict[Single] = "allow"
    /\ store[ip[Single]] = record[Single]

(***************************************************************************)
(* C10  Corrupt state fails safe: an evaluation that reads a stored value  *)
(* that is not a valid log ends in the error outcome and writes nothing.   *)
(* The handler allows the request when entries lack a field.               *)
(***************************************************************************)
C10_CorruptFailsSafe ==
    \A p \in Procs :
        (Decided(p) /\ record[p] # Absent /\ ~IsLog(record[p])) =>
            (pc[p] = "idle" /\ result[p] = "error" /\ sets[p] = 0)

(***************************************************************************)
(* C11  Invalid input fails fast: an evaluation whose client key is empty  *)
(* ends in an error without reading or writing the store, so no log is     *)
(* ever stored under the empty key.                                        *)
(* The handler never looks at req.ip before using it as the key.           *)
(***************************************************************************)
C11_InvalidInputFailsFast ==
    /\ store[EmptyKey] = Absent
    /\ \A p \in Procs :
          ip[p] = EmptyKey =>
              /\ gets[p] = 0 /\ sets[p] = 0
              /\ pc[p] = "idle" => result[p] \in {"none", "error"}

(***************************************************************************)
(* C12  Recovery is not delayed by denied probes: with evaluations run one *)
(* at a time, once a request of time t has been denied, a request of a     *)
(* time t' >= t + windowSize with no allowed request in between is         *)
(* allowed, however many requests were denied in between; and a request    *)
(* that follows denials is allowed as soon as the in-window total of the   *)
(* log is below maxRequests.                                               *)
(***************************************************************************)
C12_RecoveryAfterDenial ==
    \A p \in Procs :
        (Decided(p) /\ record[p] # Absent /\ blocked[p].since > 0) =>
            ((\/ currentRequestTime[p] >= blocked[p].since + WINDOW_SIZE_IN_HOURS
              \/ QuotaUsed(record[p], decidedAt[p]) < MAX_WINDOW_REQUEST_COUNT) =>
                 /\ verdict[p] = "allow"
                 /\ pc[p] = "idle" => result[p] = "allow")

\* a request made a full window after the first denial has been allowed
C12_Witness ==
    /\ pc[Single] = "idle" /\ result[Single] = "allow"
    /\ blocked[Single].since > 0
    /\ blocked[Single].probes >= 2
    /\ currentRequestTime[Single] >= blocked[Single].since + WINDOW_SIZE_IN_HOURS
    /\ denied[ip[Single]] = NotDenied

(***************************************************************************)
(* C13  P4, bucket ordering: whether evaluations run one at a time or      *)
(* interleave, the buckets of every stored log are in non-decreasing order *)
(* of requestTimeStamp and every requestCount is at least 1.               *)
(***************************************************************************)
C13_BucketOrdering ==
    \A k \in Keys :
        \A i \in 1 .. Len(store[k].data) :
            /\ store[k].data[i].requestCount >= 1
            /\ i > 1 => store[k].data[i - 1].requestTimeStamp
                           <= store[k].data[i].requestTimeStamp

\* two interleaved evaluations read the same log and both wrote; the stored
\* log holds buckets of different times
C13_Witness ==
    \E p, q \in Procs :
        /\ p # q
        /\ result[p] = "allow" /\ result[q] = "allow"
        /\ sets[p] = 1 /\ sets[q] = 1
        /\ record[p] # Absent /\ record[p] = record[q]
        /\ Len(store[Contended].data) >= 2
        /\ store[Contended].data[1].requestTimeStamp
              < store[Contended].data[Len(store[Contended].data)].requestTimeStamp

(***************************************************************************)
(* C14  Strict bucket ordering: with evaluations run one at a time, no two *)
(* buckets of a stored log have the same requestTimeStamp.                 *)
(* The handler stamps a new bucket now - compactionInterval, which can be  *)
(* the stamp of the bucket before it.                                      *)
(***************************************************************************)
C14_StrictOrdering ==
    \A k \in Keys :
        \A i \in 1 .. Len(store[k].data), j \in 1 .. Len(store[k].data) :
            i < j => store[k].data[i].requestTimeStamp < store[k].data[j].requestTimeStamp

(***************************************************************************)
(* C15  Compaction granularity: with evaluations run one at a time, two    *)
(* adjacent buckets of a stored log are at least compactionInterval apart. *)
(* The handler opens a bucket for every request that comes a full interval *)
(* after the first bucket.                                                 *)
(***************************************************************************)
C15_Granularity ==
    \A k \in Keys :
        \A i \in 2 .. Len(store[k].data) :
            store[k].data[i].requestTimeStamp - store[k].data[i - 1].requestTimeStamp
                >= WINDOW_LOG_INTERVAL_IN_HOURS

\* the sum of requestCount over all buckets of a log
RECURSIVE SumCounts(_)
SumCounts(log) ==
    IF log = <<>> THEN 0 ELSE Head(log).requestCount + SumCounts(Tail(log))

\* the number of allowed requests of key k
RECURSIVE AllowedUpTo(_, _)
AllowedUpTo(k, t) ==
    IF t < Epoch THEN 0 ELSE allowedAt[k][t] + AllowedUpTo(k, t - 1)

AllowedTotal(k) == AllowedUpTo(k, Epoch + MaxTicks)

(***************************************************************************)
(* C16  Lost update: every Allow writes the whole log back, so when two    *)
(* evaluations of one client key read the same log and both are allowed,   *)
(* the log finally stored is the one written by one of them and records    *)
(* one request more than the log they read, not two.                       *)
(***************************************************************************)
C16_LostUpdate ==
    \A p, q \in Procs :
        (/\ p # q
         /\ pc[p] = "idle" /\ pc[q] = "idle"
         /\ Decided(p) /\ Decided(q)
         /\ result[p] = "allow" /\ result[q] = "allow"
         /\ record[p] = record[q]) =>
            /\ store[Contended] \in {pending[p], pending[q]}
            /\ SumCounts(store[Contended].data) = SumCounts(record[p].data) + 1

\* both evaluations read the same stored log and were allowed; more requests
\* have been allowed than the stored log counts
C16_Witness ==
    \E p, q \in Procs :
        /\ p # q
        /\ pc[p] = "idle" /\ pc[q] = "idle"
        /\ result[p] = "allow" /\ result[q] = "allow"
        /\ record[p] # Absent /\ record[p] = record[q]
        /\ AllowedTotal(Contended) = SumCounts(store[Contended].data) + 1

(***************************************************************************)
(* C17  No pruning: with evaluations run one at a time, no step removes a  *)
(* bucket, changes a requestTimeStamp or lowers a requestCount of a stored *)
(* log; a write to an existing log raises the sum of all requestCount by   *)
(* exactly 1 and leaves the number of buckets equal or larger by 1.        *)
(***************************************************************************)
C17_NoPruning ==
    [][\A k \in Keys :
          store[k] # Absent =>
              /\ Len(store'[k].data) - Len(store[k].data) \in {0, 1}
              /\ \A i \in 1 .. Len(store[k].data) :
                    /\ store'[k].data[i].requestTimeStamp = store[k].data[i].requestTimeStamp
                    /\ store'[k].data[i].requestCount >= store[k].data[i].requestCount
              /\ store'[k] # store[k] =>
                    SumCounts(store'[k].data) = SumCounts(store[k].data) + 1]_vars

\* an allowed request has written a log whose first bucket had already left
\* the window when the request was decided
C17_Witness ==
    /\ pc[Single] = "idle" /\ result[Single] = "allow" /\ sets[Single] = 1
    /\ record[Single] # Absent
    /\ Len(store[ip[Single]].data) = Len(record[Single].data) + 1
    /\ store[ip[Single]].data[1].requestTimeStamp
          <= decidedAt[Single] - WINDOW_SIZE_IN_HOURS

(***************************************************************************)
(* C18  Write before proceed, no retries: every evaluation performs        *)
(* exactly one store get and at most one store set; while the set is       *)
(* outstanding no outcome has been given, an allowed evaluation has had    *)
(* its set applied, and an evaluation whose set failed is not allowed.     *)
(***************************************************************************)
C18_WriteBeforeProceed ==
    \A p \in Procs :
        /\ gets[p] <= 1 /\ sets[p] <= 1
        /\ (pc[p] = "idle" /\ result[p] # "none") => gets[p] = 1
        /\ pc[p] = "set" => (gets[p] = 1 /\ sets[p] = 0 /\ result[p] = "none")
        /\ result[p] = "allow" => (sets[p] = 1 /\ failed[p] = "none")
        /\ failed[p] = "set" => (sets[p] = 0 /\ result[p] # "allow")

\* an allowed evaluation of an existing log, whose one set put the updated
\* log in the store, where store operations can fail
C18_Witness ==
    /\ pc[Single] = "idle" /\ result[Single] = "allow"
    /\ gets[Single] = 1 /\ sets[Single] = 1
    /\ record[Single] # Absent
    /\ store[ip[Single]] = pending[Single]
    /\ store[ip[Single]] # record[Single]

(***************************************************************************)
(* C19  One time instant per evaluation: there is one value now such that  *)
(* the evaluation's window starts at now - windowSize, its bucket cutoff   *)
(* is now - compactionInterval and a bucket it creates is stamped now,     *)
(* also when time advances while the store read is outstanding.            *)
(* The handler takes the window from a second clock reading and stamps a   *)
(* new bucket with the cutoff.                                             *)
(***************************************************************************)
C19_OneInstant ==
    \A p \in Procs :
        (Decided(p) /\ record[p] # Absent) =>
            \E now \in 0 .. (Epoch + MaxTicks) :
                IF verdict[p] = "deny"
                THEN QuotaUsed(record[p], now) >= MAX_WINDOW_REQUEST_COUNT
                ELSE /\ QuotaUsed(record[p], now) < MAX_WINDOW_REQUEST_COUNT
                     /\ pending[p].data = ClaimedUpdate(record[p].data, now)

(***************************************************************************)
(* C20  Rate-limit message only for quota: rateLimiterUsingThirdParty      *)
(* answers 429 only when consume rejected because the quota is exceeded;   *)
(* a store or library failure surfaces as a generic error.                 *)
(* The handler answers 429 to every rejection of consume.                  *)
(***************************************************************************)
C20_MessageOnlyForQuota ==
    /\ tp.response = "429" => tp.cause = "quota"
    /\ tp.cause = "failure" => tp.response = "error"

====
